---- MODULE Spec2Model ----
(***************************************************************************)
(* Model of app.py of tg-uw-status-bot: the credential vault (get_creds,   *)
(* upsert_creds, set_alerts, delete_user over Fernet ciphertext), the      *)
(* callback handlers (on_button, save_creds), the repeating alert job      *)
(* (check_job) and the scraper (fetch_status).                             *)
(*                                                                         *)
(* Two specifications share the variables:                                 *)
(*   Spec      - the bot: store, job queue, one update handler at a time   *)
(*               (the Application is built without concurrent_updates) and *)
(*               one run of check_job per user; fetch_status is a single   *)
(*               suspension whose outcome the portal decides.              *)
(*   SpecFetch - fetch_status, one await per step, every await answered    *)
(*               by the remote browser with success, a timeout or another  *)
(*               error.                                                    *)
(* An action runs a coroutine from one await to the next: the synchronous  *)
(* code between two awaits (psycopg2 calls included) is never interleaved. *)
(***************************************************************************)
EXTENDS Integers, Sequences, FiniteSets, TLC

VARIABLES
    key,        \* SECRET_KEY of the running process
    users,      \* table users: telegram_id -> row or NoRow
    jobs,       \* job queue: number of jobs named alert_<uid>
    handler,    \* the update being handled (on_button / save_creds)
    tick,       \* per user: the run of check_job for job alert_<uid>
    lastUpsert, \* history: the pair given to the latest upsert_creds, per user
    ws,         \* BROWSERLESS_WS is set
    att,        \* per attempt: the activation of fetch_status; tried is the
                \* record of the locators the chain it is at has tried
    opened,     \* browser contexts created so far
    closed      \* browser contexts closed so far

vars == <<key, users, jobs, handler, tick, lastUpsert, ws, att, opened, closed>>

botVars == <<key, users, jobs, handler, tick, lastUpsert>>
fetchVars == <<ws, att, opened, closed>>

(***************************************************************************)
(* Bounds                                                                  *)
(***************************************************************************)
NumUsers == 2
NumKeys == 2
NumAttempts == 1
NumRacing == 2

Users == 1..NumUsers
Keys == 1..NumKeys
Attempts == 1..NumAttempts
\* Activations of fetch_status that are under way at the same time.
Racing == 1..NumRacing
Slots == Attempts \cup Racing

\* Texts are sequences of code points: "1/" and "2"; "hł" and "s".
CaseA == <<49, 47>>
CaseB == <<50>>
PassA == <<104, 322>>
PassB == <<115>>
\* What users type in the connect conversation: (Numer sprawy, Hasło).
CredInputs == {<<CaseA, PassA>>, <<CaseB, PassB>>}

(***************************************************************************)
(* Encryption                                                              *)
(***************************************************************************)
\* str.encode("utf-8") for code points below 2048.
RECURSIVE Utf8Encode(_)
Utf8Encode(text) ==
    IF text = <<>> THEN <<>>
    ELSE LET c == Head(text)
         IN (IF c < 128 THEN <<c>> ELSE <<192 + (c \div 64), 128 + (c % 64)>>)
            \o Utf8Encode(Tail(text))

\* bytes.decode("utf-8") for well-formed one and two byte sequences.
RECURSIVE Utf8Decode(_)
Utf8Decode(bytes) ==
    IF bytes = <<>> THEN <<>>
    ELSE LET b == Head(bytes)
         IN IF b < 128 THEN <<b>> \o Utf8Decode(Tail(bytes))
            ELSE <<(b - 192) * 64 + (bytes[2] - 128)>> \o Utf8Decode(Tail(Tail(bytes)))

\* A Fernet token: the key that authenticated it and the payload.
\* Garbage is a blob that is no valid token under any key.
Garbage == [k |-> 0, data |-> <<>>]

enc(k, text) == [k |-> k, data |-> Utf8Encode(text)]

\* A cipher without authentication would hand back the payload whatever the key.
decNoAuth(k, blob) == [ok |-> TRUE, text |-> Utf8Decode(blob.data)]

\* Fernet.decrypt raises InvalidToken unless the token was made under this key.
dec(k, blob) ==
    IF blob.k = k
    THEN [ok |-> TRUE, text |-> Utf8Decode(blob.data)]
    ELSE [ok |-> FALSE, text |-> <<>>]

(***************************************************************************)
(* DB                                                                      *)
(***************************************************************************)
NoRow == [present |-> FALSE]
NoCreds == [found |-> FALSE]

Row(c, p, a) == [present |-> TRUE, case_enc |-> c, pass_enc |-> p, alerts |-> a]

get_creds(k, table, uid) ==
    LET row == table[uid]
    IN IF ~row.present THEN NoCreds
       ELSE LET c == dec(k, row.case_enc)
                p == dec(k, row.pass_enc)
            IN IF c.ok /\ p.ok
               THEN [found |-> TRUE, case_no |-> c.text, password |-> p.text,
                     alerts |-> row.alerts]
               ELSE NoCreds

\* An upsert that, on conflict, forgets to replace pass_enc.
upsert_credsPartial(k, table, uid, case_no, password) ==
    IF table[uid].present
    THEN [table EXCEPT ![uid].case_enc = enc(k, case_no)]
    ELSE [table EXCEPT ![uid] = Row(enc(k, case_no), enc(k, password), FALSE)]

\* An upsert that, on conflict, puts alerts back to its default.
upsert_credsResetAlerts(k, table, uid, case_no, password) ==
    [table EXCEPT ![uid] = Row(enc(k, case_no), enc(k, password), FALSE)]

\* insert ... on conflict do update: alerts keeps its value, false for a new row.
upsert_creds(k, table, uid, case_no, password) ==
    IF table[uid].present
    THEN [table EXCEPT ![uid].case_enc = enc(k, case_no),
                       ![uid].pass_enc = enc(k, password)]
    ELSE [table EXCEPT ![uid] = Row(enc(k, case_no), enc(k, password), FALSE)]

set_alerts(table, uid, enabled) ==
    IF table[uid].present THEN [table EXCEPT ![uid].alerts = enabled] ELSE table

delete_user(table, uid) == [table EXCEPT ![uid] = NoRow]

(***************************************************************************)
(* Job queue                                                               *)
(***************************************************************************)
\* job_queue.run_repeating(check_job, ..., name=f"alert_{uid}", data=uid)
run_repeating(q, uid) == [q EXCEPT ![uid] = @ + 1]

\* A removal loop that never runs.
remove_jobsNone(q, uid) == q

\* A removal that takes every user's jobs.
remove_jobsOthers(q, uid) == [u \in DOMAIN q |-> 0]

\* for job in job_queue.get_jobs_by_name(f"alert_{uid}"): job.schedule_removal()
remove_jobs(q, uid) == [q EXCEPT ![uid] = 0]

(***************************************************************************)
(* Scraper: the values of fetch_status                                     *)
(***************************************************************************)
\* How an awaited browser call fails: PlaywrightTimeout, or another error.
Diags == {"timeout", "error"}

NoOutcome == [type |-> "none"]
Screenshot == [type |-> "screenshot"]
Text(t) == [type |-> "text", text |-> t]
\* An exception: its class in the terms of the error taxonomy, the action it
\* names and the underlying diagnostic its message carries.
Err(kind, action, diag) ==
    [type |-> "error", kind |-> kind, action |-> action, diag |-> diag]

\* The locator lists of the three chains, in the order of the source.
Strategies(chain) ==
    CASE chain = "case" -> <<"get_by_label", "get_by_placeholder", "locator_numer">>
      [] chain = "pass" -> <<"get_by_label", "get_by_placeholder", "locator_password">>
      [] chain = "submit" -> <<"get_by_role", "locator_input_submit", "locator_button_submit">>

\* The await that follows a chain.
AfterChain(chain) ==
    CASE chain = "case" -> "pass"
      [] chain = "pass" -> "submit"
      [] chain = "submit" -> "wait"

\* Every exhausted chain blamed on the case-number field.
chain_errorSameForAll(chain) == Err("FieldNotFound", "case", "none")

\* raise RuntimeError("Не нашёл поле 'Numer sprawy'.") and its two siblings:
\* a fixed message that names the field or the button and nothing else.
chain_error(chain) ==
    IF chain = "submit" THEN Err("SubmitNotFound", "submit", "none")
    ELSE Err("FieldNotFound", chain, "none")

\* A loop without the break: the next locator is tried after a success too.
after_strategyNoBreak(chain, i, ok) ==
    IF i < Len(Strategies(chain)) THEN [pc |-> chain, i |-> i + 1, raise |-> FALSE]
    ELSE IF ok THEN [pc |-> AfterChain(chain), i |-> 1, raise |-> FALSE]
    ELSE [pc |-> "close", i |-> i, raise |-> TRUE]

\* A chain whose exhaustion is not checked: the attempt goes on.
after_strategyNoRaise(chain, i, ok) ==
    IF ok \/ i >= Len(Strategies(chain))
    THEN [pc |-> AfterChain(chain), i |-> 1, raise |-> FALSE]
    ELSE [pc |-> chain, i |-> i + 1, raise |-> FALSE]

\* for locator in [...]: try: await ...; filled = True; break
\*                       except Exception: pass
\* if not filled: raise RuntimeError(...)
after_strategy(chain, i, ok) ==
    IF ok THEN [pc |-> AfterChain(chain), i |-> 1, raise |-> FALSE]
    ELSE IF i < Len(Strategies(chain)) THEN [pc |-> chain, i |-> i + 1, raise |-> FALSE]
    ELSE [pc |-> "close", i |-> i, raise |-> TRUE]

\* except PlaywrightTimeout: raise RuntimeError("Портал не отвечает ...");
\* any other exception leaves the try block as it is.
try_failure(step, d) ==
    IF d = "timeout" THEN Err("PortalUnresponsive", "-", "none")
    ELSE Err("Raw", step, d)

\* A text of the portal page is a sequence of tokens: a word, or one
\* character. "NBSP" is U+00A0 and "NEL" is U+0085.
\* What Python's \s and str.strip() take as whitespace (str.isspace).
White == {" ", "\n", "\t", "NBSP", "NEL"}

\* What ECMAScript's \s and String.prototype.trim take: WhiteSpace and
\* LineTerminator, which hold U+00A0 and do not hold U+0085.
JsWhite == {" ", "\n", "\t", "NBSP"}

\* re.sub(r"\s+", " ", s)
RECURSIVE Squeeze(_)
Squeeze(s) ==
    IF s = <<>> THEN <<>>
    ELSE IF Head(s) \in White
         THEN IF Len(s) > 1 /\ s[2] \in White THEN Squeeze(Tail(s))
              ELSE <<" ">> \o Squeeze(Tail(s))
         ELSE <<Head(s)>> \o Squeeze(Tail(s))

\* str.strip()
RECURSIVE Strip(_)
Strip(s) ==
    IF s = <<>> THEN <<>>
    ELSE IF Head(s) \in White THEN Strip(Tail(s))
    ELSE IF s[Len(s)] \in White THEN Strip(SubSeq(s, 1, Len(s) - 1))
    ELSE s

\* What page.evaluate hands back when no label leads to a text: null.
JsNull == <<>>

\* s.replace(/\s+/g, " ")
RECURSIVE JsSqueeze(_)
JsSqueeze(s) ==
    IF s = <<>> THEN <<>>
    ELSE IF Head(s) \in JsWhite
         THEN IF Len(s) > 1 /\ s[2] \in JsWhite THEN JsSqueeze(Tail(s))
              ELSE <<" ">> \o JsSqueeze(Tail(s))
         ELSE <<Head(s)>> \o JsSqueeze(Tail(s))

\* s.trim()
RECURSIVE JsTrim(_)
JsTrim(s) ==
    IF s = <<>> THEN <<>>
    ELSE IF Head(s) \in JsWhite THEN JsTrim(Tail(s))
    ELSE IF s[Len(s)] \in JsWhite THEN JsTrim(SubSeq(s, 1, Len(s) - 1))
    ELSE s

\* .normalize("NFKD").replace(/[\u0300-\u036f]/g, "").toLowerCase() on one
\* token: diacritics go ("e~" stands for the e with ogonek), capitals
\* become small, U+00A0 becomes a space.
Fold(w) ==
    CASE w = "Etap" -> "etap"
      [] w = "poste~powania" -> "postepowania"
      [] w = "Status" -> "status"
      [] w = "STAGE" -> "stage"
      [] w = "OF" -> "of"
      [] w = "PROCEEDINGS" -> "proceedings"
      [] w = "W" -> "w"
      [] w = "Decyzja" -> "decyzja"
      [] w = "NBSP" -> " "
      [] OTHER -> w

\* const norm = s => ...
norm(s) == JsTrim(JsSqueeze([j \in 1..Len(s) |-> Fold(s[j])]))

\* const labels = [...]
labels ==
    {<<"etap", " ", "postepowania">>, <<"status", " ", "sprawy">>,
     <<"stage", " ", "of", " ", "proceedings">>}

\* t.includes(l)
includes(t, l) ==
    \E j \in 1..(Len(t) - Len(l) + 1) : SubSeq(t, j, j + Len(l) - 1) = l

\* A page is the sequence of its elements in document order; parent is the
\* position of the enclosing element (0: none), text the element's own text.
Node(tag, parent, text) == [tag |-> tag, parent |-> parent, text |-> text]

CellTags == {"td", "th"}
BlockTags == {"label", "div", "span", "p", "dt", "dd", "strong", "b", "em"}

\* Element k is element n or lies inside it.
RECURSIVE IsInside(_, _, _)
IsInside(page, k, n) ==
    \/ k = n
    \/ k > n /\ page[k].parent # 0 /\ IsInside(page, page[k].parent, n)

\* What innerText puts before the text of an element inside another one:
\* a tab before a cell, nothing before inline text, a line break otherwise.
Sep(tag) ==
    IF tag \in CellTags THEN <<"\t">>
    ELSE IF tag \in {"span", "strong", "b", "em", "label"} THEN <<>>
    ELSE <<"\n">>

RECURSIVE TextFrom(_, _, _)
TextFrom(page, n, k) ==
    IF k > Len(page) THEN <<>>
    ELSE (IF k = n THEN page[k].text
          ELSE IF IsInside(page, k, n) THEN Sep(page[k].tag) \o page[k].text
          ELSE <<>>) \o TextFrom(page, n, k + 1)

\* el.innerText: the element's text with the text of everything inside it.
innerText(page, n) == TextFrom(page, n, n)

\* const isLabel = el => labels.some(l => norm(el.innerText).includes(l))
isLabel(page, n) == \E l \in labels : includes(norm(innerText(page, n)), l)

\* el.closest("tr")
RECURSIVE closest(_, _, _)
closest(page, n, tag) ==
    IF n = 0 THEN 0
    ELSE IF page[n].tag = tag THEN n
    ELSE closest(page, page[n].parent, tag)

\* root.querySelectorAll(tags): the positions, in document order, of the
\* elements with one of the tags inside root (root = 0: the document).
querySelectorAll(page, root, tags) ==
    {k \in 1..Len(page) :
        /\ page[k].tag \in tags
        /\ root = 0 \/ (k # root /\ IsInside(page, k, root))}

Least(S) == CHOOSE x \in S : \A y \in S : x <= y

\* (el.innerText || "").trim()
raw(page, n) == JsTrim(innerText(page, n))

\* The text a label cell leads to: the first non-empty cell after it among
\* row.querySelectorAll("td,th") of its closest row.
row_value(page, el) ==
    LET row == closest(page, el, "tr")
        after == IF row = 0 THEN {}
                 ELSE {k \in querySelectorAll(page, row, CellTags) :
                          k > el /\ raw(page, k) # <<>>}
    IN IF after = {} THEN JsNull ELSE raw(page, Least(after))

\* el.nextElementSibling
nextElementSibling(page, n) ==
    LET later == {k \in (n + 1)..Len(page) : page[k].parent = page[n].parent}
    IN IF later = {} THEN 0 ELSE Least(later)

\* for (let i = 0; i < 4 && sib; i++) { ...; sib = sib.nextElementSibling }
RECURSIVE sibling_value(_, _, _)
sibling_value(page, sib, i) ==
    IF i >= 4 \/ sib = 0 THEN JsNull
    ELSE IF raw(page, sib) # <<>> THEN raw(page, sib)
    ELSE sibling_value(page, nextElementSibling(page, sib), i + 1)

\* The function given to page.evaluate: first the table cells, then the
\* other elements, then null.
evaluate(page) ==
    LET cells == {el \in querySelectorAll(page, 0, CellTags) :
                     isLabel(page, el) /\ row_value(page, el) # JsNull}
        els == {el \in querySelectorAll(page, 0, BlockTags) :
                     /\ isLabel(page, el)
                     /\ sibling_value(page, nextElementSibling(page, el), 0) # JsNull}
    IN IF cells # {} THEN row_value(page, Least(cells))
       ELSE IF els # {}
            THEN sibling_value(page, nextElementSibling(page, Least(els)), 0)
       ELSE JsNull

\* Pages the portal shows after the login.
EtapLabel == <<"Etap", " ", "poste~powania">>
StatusLabel == <<"Status", " ", "sprawy">>
WToku == <<"W", " ", "\n", "toku">>

\* A table row: label cell, value cell.
PagePlain ==
    <<Node("table", 0, <<>>), Node("tr", 1, <<>>),
      Node("td", 2, EtapLabel), Node("td", 2, <<" ">> \o WToku \o <<"\t">>)>>
\* No label anywhere.
PageNoLabel ==
    <<Node("div", 0, <<"Witamy">>), Node("table", 0, <<>>), Node("tr", 2, <<>>),
      Node("td", 3, <<"Numer">>), Node("td", 3, <<"123">>)>>
\* The label in a header cell, in English capitals; an empty cell, then the value.
PageSkipEmpty ==
    <<Node("table", 0, <<>>), Node("tr", 1, <<>>),
      Node("th", 2, <<"STAGE", " ", "OF", " ", "PROCEEDINGS">>),
      Node("td", 2, <<" ", "NBSP">>), Node("td", 2, <<"Decyzja">>)>>
\* The label cell is the last cell of its row, and no block element follows.
PageLabelOnly ==
    <<Node("table", 0, <<>>), Node("tr", 1, <<>>),
      Node("td", 2, <<"Numer">>), Node("td", 2, StatusLabel),
      Node("tr", 1, <<>>), Node("td", 5, <<"W", " ", "toku">>)>>
\* The label and its value in a table that sits in a cell of a layout table.
PageNested ==
    <<Node("table", 0, <<>>), Node("tr", 1, <<>>), Node("td", 2, <<>>),
      Node("table", 3, <<>>), Node("tr", 4, <<>>),
      Node("td", 5, StatusLabel), Node("td", 5, <<"W", " ", "toku">>)>>
\* An earlier cell of the row mentions the label.
PageEarlierCell ==
    <<Node("table", 0, <<>>), Node("tr", 1, <<>>),
      Node("td", 2, <<"Info", " ", "(", "etap", " ", "poste~powania", ")">>),
      Node("td", 2, EtapLabel), Node("td", 2, <<"Decyzja">>)>>
\* No table: the label in a div, the value in the second element after it.
PageBlocks ==
    <<Node("div", 0, <<>>), Node("span", 1, EtapLabel), Node("span", 1, <<" ">>),
      Node("strong", 1, WToku)>>
\* The value cell holds U+0085 and nothing else.
PageNel ==
    <<Node("table", 0, <<>>), Node("tr", 1, <<>>),
      Node("td", 2, EtapLabel), Node("td", 2, <<"NEL">>)>>

Pages ==
    <<PagePlain, PageNoLabel, PageSkipEmpty, PageLabelOnly, PageNested,
      PageEarlierCell, PageBlocks, PageNel>>

Unstarted ==
    [pc |-> "idle", uid |-> 0, case_no |-> <<>>, password |-> <<>>, ctx |-> 0, i |-> 0,
     tried |-> [chain |-> "none", log |-> <<>>], steps |-> <<>>, probe |-> "none",
     filled |-> {}, consent |-> "none", page |-> 0, outcome |-> NoOutcome]

\* re.sub(r"\s+", " ", status_text).strip()
collapse(s) == Strip(Squeeze(s))

(***************************************************************************)
(* Scraper: fetch_status, one action per await                             *)
(***************************************************************************)
Answers == {"ok"} \cup Diags

Chains == {"case", "pass", "submit"}

\* fetch_status raises before its try block, or has left its finally block.
Ended(a, outcome) == [att EXCEPT ![a].pc = "done", ![a].outcome = outcome]

\* The try block is left towards finally with a value or an exception.
Unwinding(a, step, outcome) ==
    [att EXCEPT ![a].pc = "close", ![a].outcome = outcome,
                ![a].steps = Append(@, step)]

Stepped(a, step, pc) == [att EXCEPT ![a].pc = pc, ![a].steps = Append(@, step)]

\* A caller (the check branch or check_job) passes the stored credentials;
\* without BROWSERLESS_WS the call raises at once, otherwise the Playwright
\* driver is started and the connection is awaited.
FetchStart(a, uid) ==
    /\ att[a].pc = "idle"
    /\ LET creds == get_creds(key, users, uid)
       IN /\ creds.found
          /\ att' = [att EXCEPT ![a] =
                [Unstarted EXCEPT
                    !.uid = uid, !.case_no = creds.case_no, !.password = creds.password,
                    !.pc = IF ws THEN "connect" ELSE "done",
                    !.outcome = IF ws THEN NoOutcome
                                ELSE Err("SessionUnavailable", "-", "unset")]]
    /\ UNCHANGED <<botVars, ws, opened, closed>>

\* p.chromium.connect_over_cdp: a failure is re-raised with its details.
Connect(a, r) ==
    /\ att[a].pc = "connect"
    /\ att' = IF r = "ok" THEN [att EXCEPT ![a].pc = "new_context"]
              ELSE Ended(a, Err("SessionUnavailable", "-", r))
    /\ UNCHANGED <<botVars, ws, opened, closed>>

\* A browser that hands every caller the same context.
new_contextShared(ctxs) == 1

\* browser.new_context(...) creates a context on every call; the caller
\* keeps it in its local variable context.
new_context(ctxs) == Cardinality(ctxs) + 1

\* browser.new_context, before the try block.
NewContext(a, r) ==
    /\ att[a].pc = "new_context"
    /\ IF r = "ok"
       THEN LET id == new_context(opened)
            IN /\ att' = [att EXCEPT ![a].pc = "new_page", ![a].ctx = id]
               /\ opened' = opened \cup {id}
       ELSE /\ att' = Ended(a, Err("Raw", "new_context", r))
            /\ opened' = opened
    /\ UNCHANGED <<botVars, ws, closed>>

\* context.new_page, before the try block.
NewPage(a, r) ==
    /\ att[a].pc = "new_page"
    /\ att' = IF r = "ok" THEN [att EXCEPT ![a].pc = "goto"]
              ELSE Ended(a, Err("Raw", "new_page", r))
    /\ UNCHANGED <<botVars, ws, opened, closed>>

\* page.goto(LOGIN_URL)
Goto(a, r) ==
    /\ att[a].pc = "goto"
    /\ att' = IF r = "ok" THEN Stepped(a, "goto", "consent")
              ELSE Unwinding(a, "goto", try_failure("goto", r))
    /\ UNCHANGED <<botVars, ws, opened, closed>>

\* A dismissal whose failure ends the attempt.
after_consentFatal(r) ==
    IF r = "ok" THEN [pc |-> "case", raise |-> FALSE]
    ELSE [pc |-> "close", raise |-> TRUE]

\* with suppress(Exception): await page.get_by_role(...).click(timeout=3000)
\* whatever the click does, the next statement is the case-number chain.
after_consent(r) == [pc |-> "case", raise |-> FALSE]

\* The cookie button is clicked, or the click fails.
Consent(a, r) ==
    /\ att[a].pc = "consent"
    /\ LET nxt == after_consent(r)
       IN att' = [(IF nxt.raise THEN Unwinding(a, "consent", try_failure("consent", r))
                   ELSE Stepped(a, "consent", nxt.pc))
                 EXCEPT ![a].i = 1, ![a].consent = r]
    /\ UNCHANGED <<botVars, ws, opened, closed>>

\* One locator of a chain is tried: fill(case_no), fill(password) or click.
\* consent, which tells how the attempt came to the first locator, is empty
\* again once a locator has been tried.
TryStrategy(a, r) ==
    /\ att[a].pc \in Chains
    /\ LET chain == att[a].pc
           i == att[a].i
           entry == [strategy |-> Strategies(chain)[i], result |-> r]
           nxt == after_strategy(chain, i, r = "ok")
       IN att' = [att EXCEPT
                ![a].pc = nxt.pc,
                ![a].i = nxt.i,
                ![a].tried = IF @.chain = chain
                             THEN [chain |-> chain, log |-> Append(@.log, entry)]
                             ELSE [chain |-> chain, log |-> <<entry>>],
                ![a].steps = IF @ # <<>> /\ @[Len(@)] = chain THEN @ ELSE Append(@, chain),
                ![a].filled = IF r = "ok" THEN @ \cup {chain} ELSE @,
                ![a].consent = Unstarted.consent,
                ![a].outcome = IF nxt.raise THEN chain_error(chain) ELSE @]
    /\ UNCHANGED <<botVars, ws, opened, closed>>

\* page.wait_for_load_state("domcontentloaded"); the chains are behind, and
\* tried, which describes the chain the attempt is at, is empty again.
WaitLoad(a, r) ==
    /\ att[a].pc = "wait"
    /\ att' = [(IF r = "ok" THEN Stepped(a, "wait", "probe")
                ELSE Unwinding(a, "wait", try_failure("wait", r)))
              EXCEPT ![a].tried = Unstarted.tried]
    /\ UNCHANGED <<botVars, ws, opened, closed>>

\* with suppress(Exception):
\*     err = await page.get_by_text(...).inner_text(timeout=1500)
\*     if err: raise RuntimeError("Błąd logowania: ...")
\* RuntimeError is an Exception: suppress swallows it with the probe's own
\* failures, and the code goes on to page.evaluate.
after_probe(found) == [pc |-> "evaluate", outcome |-> NoOutcome]

\* The probe finds the failure text, finds an empty text, or raises.
Probe(a, found) ==
    /\ att[a].pc = "probe"
    /\ LET nxt == after_probe(found)
       IN att' = [att EXCEPT ![a].pc = nxt.pc, ![a].outcome = nxt.outcome,
                             ![a].probe = found, ![a].steps = Append(@, "probe")]
    /\ UNCHANGED <<botVars, ws, opened, closed>>

\* What fetch_status does with the value of page.evaluate:
\*     if status_text and isinstance(status_text, str): return re.sub(...).strip()
\* otherwise it goes on to the screenshot.
after_evaluate(status_text) ==
    IF status_text # JsNull
    THEN [pc |-> "close", outcome |-> Text(collapse(status_text))]
    ELSE [pc |-> "screenshot", outcome |-> NoOutcome]

\* page.evaluate returns for the page the portal shows, Pages[pg].
EvaluateReturns(a, pg) ==
    /\ att[a].pc = "evaluate"
    /\ LET nxt == after_evaluate(evaluate(Pages[pg]))
       IN att' = [att EXCEPT ![a].pc = nxt.pc, ![a].outcome = nxt.outcome,
                             ![a].page = pg, ![a].steps = Append(@, "evaluate")]
    /\ UNCHANGED <<botVars, ws, opened, closed>>

EvaluateFails(a, d) ==
    /\ att[a].pc = "evaluate"
    /\ att' = Unwinding(a, "evaluate", try_failure("evaluate", d))
    /\ UNCHANGED <<botVars, ws, opened, closed>>

\* page.screenshot(full_page=True)
TakeScreenshot(a, r) ==
    /\ att[a].pc = "screenshot"
    /\ att' = Unwinding(a, "screenshot",
                        IF r = "ok" THEN Screenshot ELSE try_failure("screenshot", r))
    /\ UNCHANGED <<botVars, ws, opened, closed>>

\* finally: await context.close(); its own exception replaces what was in
\* flight.
CloseContext(a, r) ==
    /\ att[a].pc = "close"
    /\ IF r = "ok"
       THEN /\ att' = [att EXCEPT ![a].pc = "done"]
            /\ closed' = closed \cup {att[a].ctx}
       ELSE /\ att' = Ended(a, Err("Raw", "close", r))
            /\ closed' = closed
    /\ UNCHANGED <<botVars, ws, opened>>

\* Every user has connected: odd ids with the first pair, even ids with the
\* second; BROWSERLESS_WS is set or missing.
InitFetch ==
    /\ key = 1
    /\ users = [u \in Users |->
                  IF u % 2 = 1 THEN Row(enc(1, CaseA), enc(1, PassA), FALSE)
                  ELSE Row(enc(1, CaseB), enc(1, PassB), FALSE)]
    /\ jobs = [u \in Users |-> 0]
    /\ handler = [kind |-> "none", uid |-> 0, pc |-> "idle", reply |-> "none",
                  creds |-> NoCreds, removed |-> 0]
    /\ tick = [u \in Users |-> [pc |-> "idle", creds |-> NoCreds, res |-> "none"]]
    /\ lastUpsert = [u \in Users |->
                  IF u % 2 = 1 THEN <<CaseA, PassA>> ELSE <<CaseB, PassB>>]
    /\ ws \in BOOLEAN
    /\ att = [a \in Slots |-> Unstarted]
    /\ opened = {}
    /\ closed = {}

NextFetch ==
    \/ \E a \in Attempts, uid \in Users : FetchStart(a, uid)
    \/ \E a \in Attempts, r \in Answers : Connect(a, r)
    \/ \E a \in Attempts, r \in Answers : NewContext(a, r)
    \/ \E a \in Attempts, r \in Answers : NewPage(a, r)
    \/ \E a \in Attempts, r \in Answers : Goto(a, r)
    \/ \E a \in Attempts, r \in Answers : Consent(a, r)
    \/ \E a \in Attempts, r \in Answers : TryStrategy(a, r)
    \/ \E a \in Attempts, r \in Answers : WaitLoad(a, r)
    \/ \E a \in Attempts, found \in {"found", "empty", "raised"} : Probe(a, found)
    \/ \E a \in Attempts, pg \in DOMAIN Pages : EvaluateReturns(a, pg)
    \/ \E a \in Attempts, d \in Diags : EvaluateFails(a, d)
    \/ \E a \in Attempts, r \in Answers : TakeScreenshot(a, r)
    \/ \E a \in Attempts, r \in Answers : CloseContext(a, r)

SpecFetch == InitFetch /\ [][NextFetch]_vars

\* Several activations of fetch_status, called by the check branch and by
\* runs of check_job for the same or for different users, interleave at
\* every await.
NextRace ==
    \/ \E a \in Racing, uid \in Users : FetchStart(a, uid)
    \/ \E a \in Racing, r \in Answers : Connect(a, r)
    \/ \E a \in Racing, r \in Answers : NewContext(a, r)
    \/ \E a \in Racing, r \in Answers : NewPage(a, r)
    \/ \E a \in Racing, r \in Answers : Goto(a, r)
    \/ \E a \in Racing, r \in Answers : Consent(a, r)
    \/ \E a \in Racing, r \in Answers : TryStrategy(a, r)
    \/ \E a \in Racing, r \in Answers : WaitLoad(a, r)
    \/ \E a \in Racing, found \in {"found", "empty", "raised"} : Probe(a, found)
    \/ \E a \in Racing, pg \in DOMAIN Pages : EvaluateReturns(a, pg)
    \/ \E a \in Racing, d \in Diags : EvaluateFails(a, d)
    \/ \E a \in Racing, r \in Answers : TakeScreenshot(a, r)
    \/ \E a \in Racing, r \in Answers : CloseContext(a, r)

SpecRace == InitFetch /\ [][NextRace]_vars

(***************************************************************************)
(* Handlers: on_button and save_creds                                      *)
(***************************************************************************)
\* How a call of fetch_status ends for its caller.
FetchOutcomes == {"text", "screenshot", "error"}

Idle == [kind |-> "none", uid |-> 0, pc |-> "idle", reply |-> "none",
         creds |-> NoCreds, removed |-> 0]

IdleTick == [pc |-> "idle", creds |-> NoCreds, res |-> "none"]

Replying(kind, uid, creds, reply, removed) ==
    [kind |-> kind, uid |-> uid, pc |-> "reply", reply |-> reply,
     creds |-> creds, removed |-> removed]

\* save_creds: upsert_creds, then the confirmation is awaited.
SaveCreds(uid, cr) ==
    /\ handler.pc = "idle"
    /\ users' = upsert_creds(key, users, uid, cr[1], cr[2])
    /\ lastUpsert' = [lastUpsert EXCEPT ![uid] = cr]
    /\ handler' = Replying("save", uid, NoCreds, "saved", 0)
    /\ UNCHANGED <<key, jobs, tick, fetchVars>>

\* on_button, data == "alerts_toggle": from get_creds to the awaited reply.
ToggleAlerts(uid) ==
    /\ handler.pc = "idle"
    /\ LET creds == get_creds(key, users, uid)
       IN IF ~creds.found
          THEN /\ handler' = Replying("alerts_toggle", uid, creds, "need_connect", 0)
               /\ UNCHANGED <<users, jobs>>
          ELSE LET new_state == ~creds.alerts
               IN /\ users' = set_alerts(users, uid, new_state)
                  /\ jobs' = IF new_state THEN run_repeating(jobs, uid)
                                          ELSE remove_jobs(jobs, uid)
                  /\ handler' = Replying("alerts_toggle", uid, creds,
                                         IF new_state THEN "alerts_on" ELSE "alerts_off",
                                         IF new_state THEN 0
                                         ELSE jobs[uid] - remove_jobs(jobs, uid)[uid])
    /\ UNCHANGED <<key, tick, lastUpsert, fetchVars>>

\* on_button, data == "unlink": delete_user, the removal loop, the awaited reply.
Unlink(uid) ==
    /\ handler.pc = "idle"
    /\ users' = delete_user(users, uid)
    /\ jobs' = remove_jobs(jobs, uid)
    /\ lastUpsert' = [lastUpsert EXCEPT ![uid] = <<>>]
    /\ handler' = Replying("unlink", uid, NoCreds, "unlinked",
                           jobs[uid] - remove_jobs(jobs, uid)[uid])
    /\ UNCHANGED <<key, tick, fetchVars>>

\* on_button, data == "check": without credentials the prompt to connect;
\* with them the progress note and the call of fetch_status.
Check(uid) ==
    /\ handler.pc = "idle"
    /\ LET creds == get_creds(key, users, uid)
       IN handler' = IF ~creds.found
                     THEN Replying("check", uid, creds, "need_connect", 0)
                     ELSE [kind |-> "check", uid |-> uid, pc |-> "fetch",
                           reply |-> "none", creds |-> creds, removed |-> 0]
    /\ UNCHANGED <<key, users, jobs, tick, lastUpsert, fetchVars>>

\* fetch_status returns or raises to the check branch, which awaits the
\* delivery of the text, of the screenshot or of the error message.
CheckFetched(out) ==
    /\ handler.pc = "fetch"
    /\ handler' = [handler EXCEPT !.pc = "reply", !.reply = out]
    /\ UNCHANGED <<key, users, jobs, tick, lastUpsert, fetchVars>>

\* The handler's last await is over: it returns ConversationHandler.END.
HandlerReturn ==
    /\ handler.pc = "reply"
    /\ handler' = Idle
    /\ UNCHANGED <<key, users, jobs, tick, lastUpsert, fetchVars>>

(***************************************************************************)
(* Background job: check_job                                               *)
(***************************************************************************)
\* A guard that forgets the alerts flag.
tick_skipsNoAlerts(creds) == ~creds.found

\* A guard that looks at the alerts flag only.
tick_skipsOnlyDisabled(creds) == creds.found /\ ~creds.alerts

\* if not creds or not creds.alerts: return
tick_skips(creds) == ~creds.found \/ ~creds.alerts

\* The job queue submits a run of job alert_<uid>; the run starts at a
\* later turn of the event loop.
TickDispatch(uid) ==
    /\ jobs[uid] > 0
    /\ tick[uid].pc = "idle"
    /\ tick' = [tick EXCEPT ![uid].pc = "dispatched"]
    /\ UNCHANGED <<key, users, jobs, handler, lastUpsert, fetchVars>>

\* An exception has left check_job: the job queue logs it.
\* at is the call that raised.
RaisedTick(at) == [pc |-> "raised", creds |-> NoCreds, res |-> at]

\* check_job from its first line to the await of fetch_status. get_creds
\* stands before the try block: when the database does not answer, its
\* exception leaves check_job.
TickStart(uid, db_ok) ==
    /\ tick[uid].pc = "dispatched"
    /\ LET creds == get_creds(key, users, uid)
       IN tick' = [tick EXCEPT ![uid] =
                     IF ~db_ok THEN RaisedTick("get_creds")
                     ELSE IF tick_skips(creds) THEN IdleTick
                     ELSE [pc |-> "fetch", creds |-> creds, res |-> "none"]]
    /\ UNCHANGED <<key, users, jobs, handler, lastUpsert, fetchVars>>

\* fetch_status returns or raises to check_job, which does not read creds
\* again.
TickFetched(uid, out) ==
    /\ tick[uid].pc = "fetch"
    /\ tick' = [tick EXCEPT ![uid] = [pc |-> "send", creds |-> NoCreds, res |-> out]]
    /\ UNCHANGED <<key, users, jobs, handler, lastUpsert, fetchVars>>

\* What check_job does when bot.send_message raises: inside the try block
\* the except branch takes over and sends the error message; inside the
\* except branch the exception leaves check_job.
after_send_failure(res) ==
    IF res = "error" THEN RaisedTick("send_message")
    ELSE [pc |-> "send", creds |-> NoCreds, res |-> "error"]

\* bot.send_message delivers the outcome to chat uid, or raises (send_photo
\* is under suppress).
TickDeliver(uid, sent) ==
    /\ tick[uid].pc = "send"
    /\ tick' = [tick EXCEPT ![uid] =
                  IF sent THEN [pc |-> "sent", creds |-> NoCreds, res |-> "none"]
                  ELSE after_send_failure(tick[uid].res)]
    /\ UNCHANGED <<key, users, jobs, handler, lastUpsert, fetchVars>>

\* A run that removed its job from the queue when it failed.
job_after_runRemovedOnFailure(q, uid, failed) ==
    IF failed THEN remove_jobs(q, uid) ELSE q

\* check_job holds no call of schedule_removal: whatever the run did, the
\* job alert_<uid> stays in the queue.
job_after_run(q, uid, failed) == q

\* check_job returns to the job queue, or its exception has been logged.
TickReturn(uid) ==
    /\ tick[uid].pc \in {"sent", "raised"}
    /\ tick' = [tick EXCEPT ![uid] = IdleTick]
    /\ jobs' = job_after_run(jobs, uid, tick[uid].pc = "raised")
    /\ UNCHANGED <<key, users, handler, lastUpsert, fetchVars>>

(***************************************************************************)
(* Environment of the bot                                                  *)
(***************************************************************************)
\* The process is restarted, possibly under another SECRET_KEY: main builds
\* a new Application with an empty job queue; the table stays.
Restart(k) ==
    /\ key' = k
    /\ jobs' = [u \in Users |-> 0]
    /\ handler' = Idle
    /\ tick' = [u \in Users |-> IdleTick]
    /\ UNCHANGED <<users, lastUpsert, fetchVars>>

\* A stored ciphertext is damaged.
Corrupt(uid, field) ==
    /\ users[uid].present
    /\ users' = IF field = "case_enc"
                THEN [users EXCEPT ![uid].case_enc = Garbage]
                ELSE [users EXCEPT ![uid].pass_enc = Garbage]
    /\ users' # users
    /\ UNCHANGED <<key, jobs, handler, tick, lastUpsert, fetchVars>>

Init ==
    /\ key = 1
    /\ users = [u \in Users |-> NoRow]
    /\ jobs = [u \in Users |-> 0]
    /\ handler = Idle
    /\ tick = [u \in Users |-> IdleTick]
    /\ lastUpsert = [u \in Users |-> <<>>]
    /\ ws = TRUE
    /\ att = [a \in Slots |-> Unstarted]
    /\ opened = {}
    /\ closed = {}

Next ==
    \/ \E uid \in Users, cr \in CredInputs : SaveCreds(uid, cr)
    \/ \E uid \in Users : ToggleAlerts(uid)
    \/ \E uid \in Users : Unlink(uid)
    \/ \E uid \in Users : Check(uid)
    \/ \E out \in FetchOutcomes : CheckFetched(out)
    \/ HandlerReturn
    \/ \E uid \in Users : TickDispatch(uid)
    \/ \E uid \in Users, db_ok \in BOOLEAN : TickStart(uid, db_ok)
    \/ \E uid \in Users, out \in FetchOutcomes : TickFetched(uid, out)
    \/ \E uid \in Users, sent \in BOOLEAN : TickDeliver(uid, sent)
    \/ \E uid \in Users : TickReturn(uid)
    \/ \E k \in Keys : Restart(k)
    \/ \E uid \in Users, field \in {"case_enc", "pass_enc"} : Corrupt(uid, field)

Spec == Init /\ [][Next]_vars

(***************************************************************************)
(* Claims about the store and the job queue (under Spec)                   *)
(***************************************************************************)
AlertsOn(uid) == users[uid].present /\ users[uid].alerts

\* No handler that disables alerts or unlinks uid is still running, and the
\* stored record does not have alerts enabled.
Quiet(uid) ==
    /\ ~AlertsOn(uid)
    /\ ~(handler.pc # "idle" /\ handler.uid = uid
         /\ handler.kind \in {"alerts_toggle", "unlink"})

\* The row of uid holds a ciphertext that the running key does not open.
Undecryptable(uid) ==
    /\ users[uid].present
    /\ (users[uid].case_enc.k # key \/ users[uid].pass_enc.k # key)

\* C3: a job named for a user exists only if the user's record exists in the
\* store with alerts enabled; none is left for a user removed by unlink.
C3_JobOnlyWithAlertsRecord ==
    \A uid \in Users : jobs[uid] > 0 => users[uid].present /\ users[uid].alerts

\* C3 witness: unlink has just removed a standing job of a user, whose record
\* is gone, while another user keeps a job.
C3_Witness ==
    \E uid \in Users, other \in Users :
        /\ handler.kind = "unlink" /\ handler.uid = uid /\ handler.removed > 0
        /\ ~users[uid].present /\ jobs[uid] = 0
        /\ other # uid /\ jobs[other] > 0

\* C4 (as claimed): whenever a tick delivers an outcome to a user, that user
\* is not in the state left by a returned disable or unlink.
C4_NoDeliveryOnceDisabled ==
    [][\A uid \in Users :
          (tick[uid].pc = "send" /\ tick'[uid].pc = "sent") => ~Quiet(uid)]_vars

\* C4 (amended): a run of check_job that loads the credentials after the
\* disabling or unlinking handler has returned, and before alerts are enabled
\* again, ends at once: it calls no fetch_status and so delivers nothing.
C4_NoTickStartsOnceDisabled ==
    [][\A uid \in Users :
          (tick[uid].pc = "dispatched" /\ tick'[uid].pc # "dispatched" /\ Quiet(uid))
              => tick'[uid].pc \in {"idle", "raised"}]_vars

\* C4 witness: a submitted run of check_job has not loaded the credentials
\* yet, and the handler that switched the user's alerts off has returned.
C4_Witness ==
    \E uid \in Users :
        /\ tick[uid].pc = "dispatched" /\ Quiet(uid)
        /\ get_creds(key, users, uid).found /\ ~users[uid].alerts

\* C5: get_creds answers absent for a record the key does not open, and
\* check, alerts_toggle and a tick then do what they do without a record:
\* the prompt to connect, no change of store or job queue, no fetch_status.
C5_UndecryptableIsAbsent ==
    /\ [](\A uid \in Users : Undecryptable(uid) => get_creds(key, users, uid) = NoCreds)
    /\ [][\A uid \in Users : Undecryptable(uid) =>
            /\ (/\ handler.pc = "idle" /\ handler'.pc # "idle" /\ handler'.uid = uid
                /\ handler'.kind \in {"check", "alerts_toggle"})
                  => /\ handler'.pc = "reply" /\ handler'.reply = "need_connect"
                     /\ users' = users /\ jobs' = jobs
            /\ (tick[uid].pc = "dispatched" /\ tick'[uid].pc # "dispatched")
                  => tick'[uid].pc \in {"idle", "raised"} /\ users' = users]_vars

\* C5 witness: a handler has answered a user whose stored record has alerts
\* on and a ciphertext the key does not open with the prompt to connect.
C5_Witness ==
    \E uid \in Users :
        /\ Undecryptable(uid) /\ users[uid].alerts
        /\ handler.uid = uid /\ handler.kind \in {"check", "alerts_toggle"}
        /\ handler.reply = "need_connect"

\* C6: while the record of a user is the one the latest upsert_creds wrote
\* under the running key, get_creds returns exactly the pair of that upsert;
\* after delete_user it returns absent.
C6_RoundTrip ==
    \A uid \in Users :
        /\ (users[uid].present /\ ~Undecryptable(uid)) =>
              /\ lastUpsert[uid] \in CredInputs
              /\ get_creds(key, users, uid) =
                    [found |-> TRUE, case_no |-> lastUpsert[uid][1],
                     password |-> lastUpsert[uid][2], alerts |-> users[uid].alerts]
        /\ ~users[uid].present =>
              lastUpsert[uid] = <<>> /\ get_creds(key, users, uid) = NoCreds

\* C6 witness: a check has loaded the pair of the latest upsert of a user
\* whose record was overwritten after a key rotation, another user holding
\* the other pair.
C6_Witness ==
    \E uid \in Users, other \in Users :
        /\ other # uid /\ key # 1
        /\ lastUpsert[uid] = <<CaseB, PassB>> /\ lastUpsert[other] = <<CaseA, PassA>>
        /\ handler.kind = "check" /\ handler.uid = uid /\ handler.pc = "fetch"
        /\ handler.creds.case_no = CaseB /\ handler.creds.password = PassB
        /\ users[other].present /\ ~Undecryptable(other)

\* C11: no exception leaves check_job: a run always ends by delivering its
\* outcome, whichever of its calls fails.
C11_NoExceptionEscapes ==
    \A uid \in Users : tick[uid].pc # "raised"

\* C14: a run of check_job that finds no credentials (no record, or one the
\* key does not open) or finds alerts off returns at once: it calls no
\* fetch_status, sends nothing, and leaves the store, the job queue, the
\* handler and the browser contexts as they were.
C14_SkippedTickDoesNothing ==
    [][\A uid \in Users :
          (/\ TickStart(uid, TRUE)
           /\ LET creds == get_creds(key, users, uid)
              IN ~creds.found \/ ~creds.alerts)
              => /\ tick'[uid] = IdleTick
                 /\ users' = users /\ jobs' = jobs /\ key' = key
                 /\ handler' = handler
                 /\ opened' = opened /\ closed' = closed /\ att' = att]_vars

\* C14 witness: the job queue has submitted a run for a user whose job is
\* installed and whose record the key no longer opens; another run is
\* submitted for a user whose alerts are off.
C14_Witness ==
    \E uid \in Users, other \in Users :
        /\ tick[uid].pc = "dispatched" /\ jobs[uid] > 0
        /\ Undecryptable(uid) /\ ~get_creds(key, users, uid).found
        /\ other # uid /\ tick[other].pc = "dispatched"
        /\ get_creds(key, users, other).found /\ ~users[other].alerts

\* C15: a run of check_job that fails (the credential load raises,
\* fetch_status raises, a delivery raises, the exception leaves check_job)
\* leaves the job queue as it was, and a user whose job is installed and
\* whose run is over can always be given the next run.
C15_FailedTickKeepsJob ==
    /\ [](\A uid \in Users :
            (jobs[uid] > 0 /\ tick[uid].pc = "idle") => ENABLED TickDispatch(uid))
    /\ [][\A uid \in Users :
            (\/ TickStart(uid, FALSE)
             \/ TickFetched(uid, "error")
             \/ TickDeliver(uid, FALSE)
             \/ (tick[uid].pc = "raised" /\ TickReturn(uid)))
                => jobs' = jobs]_vars

\* C15 witness: the delivery of the error message has raised out of
\* check_job, and the user's job is still in the queue.
C15_Witness ==
    \E uid \in Users :
        /\ tick[uid] = RaisedTick("send_message")
        /\ jobs[uid] > 0 /\ AlertsOn(uid)

\* C16: removing the jobs of a user leaves none named for that user and
\* every other user's jobs as they were; removing them again changes
\* nothing; and this is what the unlink and the disabling branches do to the
\* queue, with or without a job to remove.
C16_DisableIdempotent ==
    /\ [](\A uid \in Users :
            LET once == remove_jobs(jobs, uid)
                twice == remove_jobs(once, uid)
            IN /\ once[uid] = 0
               /\ twice = once
               /\ \A other \in Users \ {uid} : once[other] = jobs[other])
    /\ [][\A uid \in Users :
            (\/ Unlink(uid)
             \/ (ToggleAlerts(uid) /\ AlertsOn(uid) /\ ~Undecryptable(uid)))
                => /\ jobs'[uid] = 0
                   /\ \A other \in Users \ {uid} : jobs'[other] = jobs[other]]_vars

\* C16 witness: unlink has run for a user who had no job left to remove,
\* while another user's job stays installed.
C16_Witness ==
    \E uid \in Users, other \in Users :
        /\ handler.kind = "unlink" /\ handler.uid = uid /\ handler.pc = "reply"
        /\ handler.removed = 0 /\ jobs[uid] = 0
        /\ other # uid /\ jobs[other] = 1

\* C17: every user whose stored record has alerts enabled has a job in the
\* queue.
C17_AlertsRecordHasJob ==
    \A uid \in Users : AlertsOn(uid) => jobs[uid] > 0

\* C18: the queue never holds more than one job named for the same user.
C18_AtMostOneJobPerUser ==
    \A uid \in Users : jobs[uid] <= 1

\* C18 witness: the enabling branch has installed a job for a user who had
\* saved credentials again, while the other user's job is installed too.
C18_Witness ==
    \E uid \in Users, other \in Users :
        /\ handler.kind = "alerts_toggle" /\ handler.uid = uid
        /\ handler.reply = "alerts_on" /\ jobs[uid] = 1
        /\ lastUpsert[uid] = <<CaseB, PassB>>
        /\ other # uid /\ jobs[other] = 1

(***************************************************************************)
(* Claims about fetch_status (under SpecFetch)                             *)
(***************************************************************************)
StepsOf(a) == {att[a].steps[j] : j \in 1..Len(att[a].steps)}

\* Every locator of the chain the attempt is at has been tried and has failed.
Exhausted(a) ==
    LET t == att[a].tried
    IN /\ t.chain \in Chains
       /\ Len(t.log) = Len(Strategies(t.chain))
       /\ \A j \in 1..Len(t.log) : t.log[j].result # "ok"

\* The error names the chain's action: the field, or the submit click.
Names(e, chain) ==
    /\ e.type = "error"
    /\ e.action = chain
    /\ e.kind = (IF chain = "submit" THEN "SubmitNotFound" ELSE "FieldNotFound")

\* C1: once the probe has found the login-failure text, the attempt is in
\* LoginFailed: it runs no extraction and no screenshot, the exception in
\* flight is the authentication-rejected error, and it ends with an error.
C1_ProbeFoundEndsLoginFailed ==
    \A a \in Attempts : att[a].probe = "found" =>
        /\ att[a].pc \in {"close", "done"}
        /\ StepsOf(a) \cap {"evaluate", "screenshot"} = {}
        /\ att[a].pc = "close" => att[a].outcome = Err("AuthenticationRejected", "-", "none")
        /\ att[a].pc = "done" => att[a].outcome.type = "error"

\* C2: an attempt that has returned or raised has closed the browser context
\* it acquired.
C2_ContextClosedAtExit ==
    \A a \in Attempts :
        (att[a].pc = "done" /\ att[a].ctx # 0) => att[a].ctx \in closed

\* C7: the locators a chain has tried are the first ones of its list, in the
\* order of the list; only the last one tried can have succeeded, and when
\* it has, the attempt is past the chain with no exception in flight.
C7_ShortCircuit ==
    \A a \in Attempts :
        LET t == att[a].tried
            n == Len(t.log)
        IN t.chain # "none" =>
             /\ t.chain \in Chains
             /\ n >= 1 /\ n <= Len(Strategies(t.chain))
             /\ \A j \in 1..n : t.log[j].strategy = Strategies(t.chain)[j]
             /\ \A j \in 1..(n - 1) : t.log[j].result # "ok"
             /\ t.log[n].result = "ok" =>
                   /\ att[a].pc = AfterChain(t.chain)
                   /\ att[a].outcome = NoOutcome

\* C7 witness: the second locator of the submit chain has clicked after the
\* first one failed; the third was not tried and the attempt awaits the load.
C7_Witness ==
    \E a \in Attempts :
        /\ att[a].tried.chain = "submit" /\ Len(att[a].tried.log) = 2
        /\ att[a].tried.log[1].result # "ok" /\ att[a].tried.log[2].result = "ok"
        /\ att[a].pc = "wait"

\* C8: when every locator of a chain has failed, the attempt is unwinding or
\* over, the chain is the last login step it took, the exception leaving the
\* try block names the chain's action, and that exception is what the caller
\* gets whenever the context was closed (otherwise context.close() raised
\* and the caller gets that exception).
C8_ExhaustedChainIsFatalAndNamed ==
    \A a \in Attempts : Exhausted(a) =>
        LET chain == att[a].tried.chain
        IN /\ att[a].pc \in {"close", "done"}
           /\ att[a].steps[Len(att[a].steps)] = chain
           /\ att[a].pc = "close" => Names(att[a].outcome, chain)
           /\ (att[a].pc = "done" /\ att[a].ctx \in closed) => Names(att[a].outcome, chain)
           /\ (att[a].pc = "done" /\ att[a].ctx \notin closed) =>
                 att[a].outcome \in {Err("Raw", "close", d) : d \in Diags}

\* C8 witness: the password chain is exhausted and the attempt has ended
\* with the error that names the password field; no submit was clicked.
C8_Witness ==
    \E a \in Attempts :
        /\ Exhausted(a) /\ att[a].tried.chain = "pass" /\ att[a].pc = "done"
        /\ att[a].outcome = Err("FieldNotFound", "pass", "none")
        /\ "submit" \notin StepsOf(a)

\* C9: the error raised for an exhausted chain carries the diagnostic of the
\* last locator tried.
C9_LastDiagnosticRetained ==
    \A a \in Attempts : (Exhausted(a) /\ att[a].pc = "close") =>
        att[a].outcome.diag = att[a].tried.log[Len(att[a].tried.log)].result

\* C10: an attempt that has ended with an error before page.goto was called
\* has ended with SessionUnavailable.
C10_OnlySessionUnavailableBeforeNavigation ==
    \A a \in Attempts :
        (att[a].pc = "done" /\ att[a].steps = <<>> /\ att[a].outcome.type = "error")
            => att[a].outcome.kind = "SessionUnavailable"

\* The elements of a page in which the claim's layout occurs: a cell whose
\* own text holds a label, and the next cell of the same row, not empty.
LabelValuePairs(page) ==
    {pair \in (1..Len(page)) \X (1..Len(page)) :
        /\ page[pair[1]].tag \in CellTags
        /\ \E l \in labels : includes(norm(page[pair[1]].text), l)
        /\ pair[2] = nextElementSibling(page, pair[1])
        /\ page[pair[2]].tag \in CellTags
        /\ page[page[pair[1]].parent].tag = "tr"
        /\ raw(page, pair[2]) # <<>>}

\* Some label element of the page leads to a text that is not empty: a
\* later cell of its row, or one of the four elements after it.
RECURSIVE Following(_, _, _)
Following(page, sib, i) ==
    IF i >= 4 \/ sib = 0 THEN {}
    ELSE {sib} \cup Following(page, nextElementSibling(page, sib), i + 1)

SomeMatchYields(page) ==
    \/ \E el \in querySelectorAll(page, 0, CellTags) :
          /\ isLabel(page, el)
          /\ \E k \in querySelectorAll(page, closest(page, el, "tr"), CellTags) :
                closest(page, el, "tr") # 0 /\ k > el /\ raw(page, k) # <<>>
    \/ \E el \in querySelectorAll(page, 0, BlockTags) :
          /\ isLabel(page, el)
          /\ \E k \in Following(page, nextElementSibling(page, el), 0) :
                raw(page, k) # <<>>

\* C12: an attempt whose page.evaluate has returned and which has ended
\* without an error has returned a status text that is not empty when some
\* label match yields a text, and the screenshot when none does.
C12_TextIffSomeMatchYields ==
    \A a \in Attempts :
        (att[a].pc = "done" /\ att[a].page # 0 /\ att[a].outcome.type # "error") =>
            IF SomeMatchYields(Pages[att[a].page])
            THEN att[a].outcome.type = "text" /\ att[a].outcome.text # <<>>
            ELSE att[a].outcome = Screenshot

\* C13: when the page holds a label cell with its value in the next cell of
\* the row, the value page.evaluate leads to is the text of such a value
\* cell, trimmed and with every whitespace run collapsed to one space.
C13_AdjacentCellIsReturned ==
    \A a \in Attempts :
        (/\ att[a].page # 0 /\ LabelValuePairs(Pages[att[a].page]) # {}
         /\ att[a].pc = "close" /\ att[a].steps[Len(att[a].steps)] = "evaluate") =>
                \E pair \in LabelValuePairs(Pages[att[a].page]) :
                    att[a].outcome =
                        Text(collapse(innerText(Pages[att[a].page], pair[2])))

LoginOrder ==
    <<"goto", "consent", "case", "pass", "submit", "wait", "probe", "evaluate",
      "screenshot">>

\* C19: the steps an attempt has taken are the first steps of the login
\* order, each once; the password chain is entered only after a case-number
\* locator has filled, the submit chain only after a password locator has
\* filled, and the wait, the probe and the extraction only after a submit
\* locator has clicked.
C19_StepsOnceInOrder ==
    \A a \in Attempts :
        /\ Len(att[a].steps) <= Len(LoginOrder)
        /\ att[a].steps = SubSeq(LoginOrder, 1, Len(att[a].steps))
        /\ att[a].filled \subseteq StepsOf(a) \cap Chains
        /\ "pass" \in StepsOf(a) => "case" \in att[a].filled
        /\ "submit" \in StepsOf(a) => "pass" \in att[a].filled
        /\ StepsOf(a) \cap {"wait", "probe", "evaluate"} # {} => "submit" \in att[a].filled

\* C19 witness: an attempt has gone through every step once, up to the
\* screenshot, and has ended.
C19_Witness ==
    \E a \in Attempts :
        /\ att[a].pc = "done" /\ att[a].steps = LoginOrder
        /\ att[a].filled = Chains /\ att[a].outcome = Screenshot

\* C20: whatever the click on the cookie button does, the attempt is next at
\* the first locator of the case-number chain with no exception in flight,
\* in the state it is in after a successful click (but for the record of
\* what the click did).
C20_ConsentNeverAborts ==
    [][\A a \in Attempts :
          (att[a].pc = "consent" /\ att'[a].pc # "consent") =>
              att'[a] = [att[a] EXCEPT !.pc = "case", !.i = 1,
                                       !.steps = Append(@, "consent"),
                                       !.consent = att'[a].consent]]_vars

\* C20 witness: the click on the cookie button has timed out and the
\* attempt is at the first locator of the case-number chain.
C20_Witness ==
    \E a \in Attempts :
        /\ att[a].consent = "timeout" /\ att[a].pc = "case" /\ att[a].i = 1
        /\ att[a].steps = <<"goto", "consent">> /\ att[a].outcome = NoOutcome

(***************************************************************************)
(* Claims about concurrent activations of fetch_status (under SpecRace)    *)
(***************************************************************************)
\* The activation holds a context it has not closed.
HoldsContext(a) == att[a].ctx # 0 /\ att[a].pc # "done"

\* C21: activations that interleave never hold the same context; a context
\* is closed only by the activation that created it, at the end of that
\* activation, so a context an activation still holds is open; and no step
\* of any activation changes the table users, the job queue or the key.
C21_OwnContextAndNoStoreChange ==
    /\ [](\A a \in Racing, b \in Racing :
            (a # b /\ att[a].ctx # 0 /\ att[b].ctx # 0) => att[a].ctx # att[b].ctx)
    /\ [](\A a \in Racing : HoldsContext(a) => att[a].ctx \notin closed)
    /\ [][/\ closed' \ closed \subseteq
                {att[a].ctx : a \in {b \in Racing :
                                        att[b].pc = "close" /\ att'[b].pc = "done"}}
          /\ users' = users /\ jobs' = jobs /\ key' = key]_vars

\* C21 witness: two activations for the same user interleave: one has
\* returned a status text and closed its context while the other, which
\* created its context first, still works on its page in a context of its
\* own.
C21_Witness ==
    \E a \in Racing, b \in Racing :
        /\ a # b /\ att[a].uid = att[b].uid
        /\ att[a].pc = "done" /\ att[a].outcome.type = "text"
        /\ att[a].ctx \in closed
        /\ att[b].pc = "evaluate" /\ att[b].ctx # 0 /\ att[b].ctx < att[a].ctx
        /\ att[b].ctx \notin closed

====
